---- MODULE Spec2Model ----
(***************************************************************************)
(* Model of aivis_style_gui.py: the model transform (load_model,           *)
(* add_styles_to_model, save_model of AivisSpeechStyleAdder) over a small  *)
(* filesystem, and the batch driver of AivisStyleGUI (the Tk event loop    *)
(* and the worker threads started by execute_process).                     *)
(*                                                                         *)
(* Conventions.                                                            *)
(*  - A Python dict is a function whose DOMAIN is the set of keys present. *)
(*  - A Python float is the integer number of hundredths (1.2 is 120,      *)
(*    -0.1 is -10, 0.95 is 95); every float of the program is a multiple   *)
(*    of 0.01.                                                             *)
(*  - The display names of self.styles are Japanese in the source; the     *)
(*    module writes them in Hepburn romanisation.                          *)
(*  - The texts the program only writes (status_label, output_label, the  *)
(*    listbox rows, the progress bar, the message boxes) are not part of   *)
(*    the state: nothing in the program reads them back.  The callbacks    *)
(*    update_status and showerror, which only write them, are therefore    *)
(*    not queued; process_complete, which enables the button, is.          *)
(*  - A call result is [exc |-> e, value |-> v]: e = "" for a normal       *)
(*    return of v, otherwise the class name of the exception raised and v  *)
(*    the argument as the call left it.                                    *)
(***************************************************************************)
EXTENDS Integers, Sequences, FiniteSets, TLC

VARIABLES
    disk,           \* the files on disk: path -> file
    dirs,           \* the directories under the working directory: name -> (file name -> file)
    lists,          \* the heap of Python list objects: id -> list of paths
    input_files,    \* AivisStyleGUI.input_files: the id of a list object
    output_dir,     \* AivisStyleGUI.output_dir
    execute_btn,    \* the state of execute_btn
    after_queue,    \* process_complete callbacks posted with root.after, oldest first
    threads,        \* the worker threads started by execute_process
    nthreads,       \* how many were started
    m_in,       \* pure-merge specification: the argument of the first call
    m_once,     \* ... the result of the first call
    m_doc,      \* ... the current model_data
    m_calls,    \* ... how many calls of add_styles_to_model returned
    m_exc,      \* ... the exception of the last call ("" if none)
    reloaded    \* round-trip specification: load_model of the file a cycle wrote

mvars == <<m_in, m_once, m_doc, m_calls, m_exc>>

fsvars == <<disk, dirs>>

uivars == <<lists, input_files, output_dir, execute_btn, after_queue>>

harness == <<mvars, reloaded>>

vars == <<fsvars, uivars, threads, nthreads, harness>>

-----------------------------------------------------------------------------
(* Bounds *)

MaxSpeakers == 2    \* speakers of a configuration of the pure-merge inputs

MaxFiles == 2       \* paths the selection may hold

MaxPick == 1        \* paths one file dialog returns

MaxBatches == 2     \* clicks on the execute button that start a batch

-----------------------------------------------------------------------------
(* dict helpers *)

StagingName == "temp_aivis_extract"   \* Path("temp_aivis_extract")

EmptyDict == [k \in {} |-> 0]

Put(d, k, v) == [x \in (DOMAIN d) \cup {k} |-> IF x = k THEN v ELSE d[x]]

Without(d, k) == [x \in (DOMAIN d) \ {k} |-> d[x]]

Return(v) == [exc |-> "", value |-> v]

Raise(e, v) == [exc |-> e, value |-> v]

-----------------------------------------------------------------------------
(* AivisSpeechStyleAdder.__init__: self.styles, in insertion order *)

styles_keys ==
    <<"normal", "standard", "high_tension", "calm", "cheerful", "emotional">>

styles ==
    [normal       |-> "no-maru",
     standard     |-> "tsuujou",
     high_tension |-> "tenshon takame",
     calm         |-> "ochitsuki",
     cheerful     |-> "joukigen",
     emotional    |-> "ikari / kanashimi"]

(* _get_style_parameters: the table style_params, in hundredths *)
style_params ==
    [normal       |-> [speed |-> 100, pitch |-> 0, intonation |-> 100,
                       volume |-> 100, emotion_strength |-> 50],
     standard     |-> [speed |-> 100, pitch |-> 0, intonation |-> 100,
                       volume |-> 100, emotion_strength |-> 50],
     high_tension |-> [speed |-> 120, pitch |-> 20, intonation |-> 150,
                       volume |-> 120, emotion_strength |-> 80],
     calm         |-> [speed |-> 90, pitch |-> -10, intonation |-> 80,
                       volume |-> 90, emotion_strength |-> 30],
     cheerful     |-> [speed |-> 110, pitch |-> 10, intonation |-> 130,
                       volume |-> 110, emotion_strength |-> 70],
     emotional    |-> [speed |-> 95, pitch |-> -20, intonation |-> 140,
                       volume |-> 100, emotion_strength |-> 90]]

(* style_params.get(style_id, style_params["normal"]) *)
get_style_parameters(style_id) ==
    IF style_id \in DOMAIN style_params
    THEN style_params[style_id]
    ELSE style_params["normal"]

-----------------------------------------------------------------------------
(* add_styles_to_model *)

(* A JSON value under the key "styles" of a configuration: a mapping       *)
(* ([tag |-> "dict", items |-> f]) or a value of another JSON type.        *)
StylesDict(items) == [tag |-> "dict", items |-> items]

StylesOther == [tag |-> "str", items |-> EmptyDict]

(* Mutant of insert_styles: an identifier the table already holds keeps   *)
(* its entry (setdefault instead of assignment).                           *)
RECURSIVE insert_styles_keep_existing(_, _)
insert_styles_keep_existing(items, n) ==
    IF n > Len(styles_keys)
    THEN items
    ELSE LET style_id == styles_keys[n]
         IN  insert_styles_keep_existing(
                 IF style_id \in DOMAIN items
                 THEN items
                 ELSE Put(items, style_id,
                          [name       |-> styles[style_id],
                           parameters |-> get_style_parameters(style_id)]),
                 n + 1)

(* for style_id, style_name in self.styles.items():                        *)
(*     config["styles"][style_id] = {"name": ..., "parameters": ...}       *)
(* from the n-th key of self.styles on.                                    *)
RECURSIVE insert_styles(_, _)
insert_styles(items, n) ==
    IF n > Len(styles_keys)
    THEN items
    ELSE LET style_id == styles_keys[n]
         IN  insert_styles(
                 Put(items, style_id,
                     [name       |-> styles[style_id],
                      parameters |-> get_style_parameters(style_id)]),
                 n + 1)

(* Mutant of speaker_with_styles: the test for an existing field is lost. *)
speaker_styles_overwritten(speaker) == Put(speaker, "styles", styles_keys)

(* Mutant of speaker_with_styles: the identifiers are appended to the      *)
(* field a speaker has.                                                    *)
speaker_styles_appended(speaker) ==
    Put(speaker, "styles",
        (IF "styles" \in DOMAIN speaker THEN speaker["styles"] ELSE <<>>)
            \o styles_keys)

(* if "styles" not in speaker: speaker["styles"] = list(self.styles.keys()) *)
speaker_with_styles(speaker) ==
    IF "styles" \notin DOMAIN speaker
    THEN Put(speaker, "styles", styles_keys)
    ELSE speaker

(* Lines 61-73, on the dict bound to the local name config. *)
add_styles_to_config(config) ==
    LET c1 == IF "styles" \notin DOMAIN config
              THEN Put(config, "styles", StylesDict(EmptyDict))
              ELSE config
    IN  IF c1["styles"].tag # "dict"
        THEN Raise("TypeError", config)   \* item assignment on a non-mapping
        ELSE LET c2 == Put(c1, "styles",
                           StylesDict(insert_styles(c1["styles"].items, 1)))
                 c3 == IF "speakers" \in DOMAIN c2
                       THEN Put(c2, "speakers",
                                [i \in 1..Len(c2["speakers"]) |->
                                    speaker_with_styles(c2["speakers"][i])])
                       ELSE c2
             IN  Return(c3)

(* model_data.get("type") == "aivis" *)
IsAivis(model_data) ==
    "type" \in DOMAIN model_data /\ model_data["type"] = "aivis"

add_styles_to_model(model_data) ==
    IF IsAivis(model_data)
    THEN IF "config" \notin DOMAIN model_data
         THEN Raise("KeyError", model_data)
         ELSE LET r == add_styles_to_config(model_data["config"])
              IN  [exc |-> r.exc, value |-> Put(model_data, "config", r.value)]
    ELSE add_styles_to_config(model_data)

-----------------------------------------------------------------------------
(* json.dump / json.load.  A JSON text is the list of the members of its   *)
(* top-level object, each [key |-> k, val |-> v]; v is a string, a number  *)
(* literal, a list or the member list of a nested object.  A number        *)
(* literal is [neg, whole, frac]: sign, integer digits (as a number) and   *)
(* the list of fraction digits (empty for an integer literal).             *)

RECURSIVE SetToSeq(_)
SetToSeq(S) ==
    IF S = {}
    THEN <<>>
    ELSE LET x == CHOOSE y \in S : TRUE
         IN  <<x>> \o SetToSeq(S \ {x})

Abs(n) == IF n < 0 THEN -n ELSE n

(* float.__repr__ of h/100: the shortest digits that read back as h/100 *)
FloatRepr(h) ==
    LET a == Abs(h)
        f == a % 100
    IN  [neg   |-> h < 0,
         whole |-> a \div 100,
         frac  |-> IF f % 10 = 0 THEN <<f \div 10>> ELSE <<f \div 10, f % 10>>]

IntRepr(n) == [neg |-> n < 0, whole |-> Abs(n), frac |-> <<>>]

(* the float a literal with a fraction part reads as, in hundredths *)
ParseFloat(lit) ==
    LET f == IF Len(lit.frac) = 0 THEN 0
             ELSE IF Len(lit.frac) = 1 THEN 10 * lit.frac[1]
             ELSE 10 * lit.frac[1] + lit.frac[2]
        a == 100 * lit.whole + f
    IN  IF lit.neg THEN -a ELSE a

ParseInt(lit) == IF lit.neg THEN -lit.whole ELSE lit.whole

ParamKeys == <<"speed", "pitch", "intonation", "volume", "emotion_strength">>

dump_params(p) ==
    [i \in 1..Len(ParamKeys) |->
        [key |-> ParamKeys[i], val |-> FloatRepr(p[ParamKeys[i]])]]

dump_entry(e) ==
    <<[key |-> "name", val |-> e.name],
      [key |-> "parameters", val |-> dump_params(e.parameters)]>>

dump_styles(sv) ==
    IF sv.tag = "dict"
    THEN LET ids == SetToSeq(DOMAIN sv.items)
         IN  [tag |-> "object",
              members |-> [i \in 1..Len(ids) |->
                              [key |-> ids[i],
                               val |-> dump_entry(sv.items[ids[i]])]]]
    ELSE [tag |-> "string", members |-> <<>>]

dump_speaker(sp) ==
    LET ks == SetToSeq(DOMAIN sp)
    IN  [i \in 1..Len(ks) |->
            [key |-> ks[i],
             val |-> IF ks[i] = "id" THEN IntRepr(sp[ks[i]]) ELSE sp[ks[i]]]]

RECURSIVE json_dump(_)
json_dump(obj) ==
    LET ks == SetToSeq(DOMAIN obj)
        enc(k) ==
            CASE k = "styles"   -> dump_styles(obj[k])
              [] k = "speakers" -> [i \in 1..Len(obj[k]) |->
                                       dump_speaker(obj[k][i])]
              [] k = "config"   -> json_dump(obj[k])
              [] OTHER          -> obj[k]
    IN  [i \in 1..Len(ks) |-> [key |-> ks[i], val |-> enc(ks[i])]]

(* the value of the last member named k (a later duplicate key wins) *)
Member(members, k) ==
    LET last == CHOOSE i \in 1..Len(members) :
                    /\ members[i].key = k
                    /\ \A j \in (i + 1)..Len(members) : members[j].key # k
    IN  members[last].val

MemberKeys(members) == {members[i].key : i \in 1..Len(members)}

load_params(members) ==
    [k \in MemberKeys(members) |-> ParseFloat(Member(members, k))]

load_entry(members) ==
    [k \in MemberKeys(members) |->
        IF k = "parameters"
        THEN load_params(Member(members, k))
        ELSE Member(members, k)]

load_styles(v) ==
    IF v.tag = "object"
    THEN StylesDict([k \in MemberKeys(v.members) |->
                        load_entry(Member(v.members, k))])
    ELSE StylesOther

load_speaker(members) ==
    [k \in MemberKeys(members) |->
        IF k = "id" THEN ParseInt(Member(members, k)) ELSE Member(members, k)]

RECURSIVE json_load(_)
json_load(text) ==
    [k \in MemberKeys(text) |->
        LET v == Member(text, k)
        IN  CASE k = "styles"   -> load_styles(v)
              [] k = "speakers" -> [i \in 1..Len(v) |-> load_speaker(v[i])]
              [] k = "config"   -> json_load(v)
              [] OTHER          -> v]

-----------------------------------------------------------------------------
(* Files.  A file is [kind, text, blob, entries]: a JSON text, opaque      *)
(* bytes, or a ZIP archive (entry name -> file).                           *)

JsonFile(text) ==
    [kind |-> "json", text |-> text, blob |-> "", entries |-> EmptyDict]

BinFile(blob) ==
    [kind |-> "bin", text |-> <<>>, blob |-> blob, entries |-> EmptyDict]

ZipFile(entries) ==
    [kind |-> "zip", text |-> <<>>, blob |-> "", entries |-> entries]

(* A path is [dir, stem, ext]: os.path.basename is stem + ext and         *)
(* os.path.splitext(basename) is (stem, ext).                              *)
Path(dir, stem, ext) == [dir |-> dir, stem |-> stem, ext |-> ext]

(* What the environment does to a write: "ok", or which open for writing   *)
(* fails (config.json in the staging directory, or the output file).       *)
IoOutcomes == {"ok", "config_write_fails", "output_write_fails"}

Result(exc, value, d, f) == [exc |-> exc, value |-> value, dirs |-> d, disk |-> f]

-----------------------------------------------------------------------------
(* load_model, _load_aivis_model *)

(* zip_ref.extractall(temp_dir): the entries are written over the files    *)
(* the directory holds.                                                    *)
extractall(files, entries) ==
    [n \in (DOMAIN files) \cup (DOMAIN entries) |->
        IF n \in DOMAIN entries THEN entries[n] ELSE files[n]]

(* shutil.rmtree(temp_dir, ignore_errors=True) *)
rmtree(d, temp_dir) == Without(d, temp_dir)

load_aivis_model(model_path) ==
    LET temp_dir == StagingName
        \* temp_dir.mkdir(exist_ok=True)
        d1 == IF temp_dir \in DOMAIN dirs THEN dirs
              ELSE Put(dirs, temp_dir, EmptyDict)
        file == disk[model_path]
    IN  IF file.kind # "zip"
        THEN Result("BadZipFile", EmptyDict, rmtree(d1, temp_dir), disk)
        ELSE LET d2 == Put(d1, temp_dir, extractall(d1[temp_dir], file.entries))
             IN  IF "config.json" \in DOMAIN d2[temp_dir]
                 THEN IF d2[temp_dir]["config.json"].kind = "json"
                      THEN Result("",
                                  [type     |-> "aivis",
                                   config   |-> json_load(d2[temp_dir]["config.json"].text),
                                   temp_dir |-> temp_dir],
                                  d2, disk)
                      ELSE Result("JSONDecodeError", EmptyDict,
                                  rmtree(d2, temp_dir), disk)
                 ELSE Result("FileNotFoundError", EmptyDict,
                             rmtree(d2, temp_dir), disk)

load_model(model_path) ==
    IF model_path.ext = ".aivis"
    THEN load_aivis_model(model_path)
    ELSE IF model_path.ext = ".json"
    THEN IF model_path \notin DOMAIN disk
         THEN Result("FileNotFoundError", EmptyDict, dirs, disk)
         ELSE IF disk[model_path].kind = "json"
         THEN Result("", json_load(disk[model_path].text), dirs, disk)
         ELSE Result("JSONDecodeError", EmptyDict, dirs, disk)
    ELSE Result("ValueError", EmptyDict, dirs, disk)

-----------------------------------------------------------------------------
(* save_model, _save_aivis_model *)

save_aivis_model(model_data, output_path, io) ==
    IF "temp_dir" \notin DOMAIN model_data
    THEN Result("KeyError", model_data, dirs, disk)
    ELSE
    LET temp_dir == model_data["temp_dir"]
    IN  \* open(config_path, 'w')
        IF temp_dir \notin DOMAIN dirs
        THEN Result("FileNotFoundError", model_data, dirs, disk)
        ELSE IF io = "config_write_fails"
        THEN Result("OSError", model_data, dirs, disk)
        ELSE IF "config" \notin DOMAIN model_data
        THEN Result("KeyError", model_data,
                    Put(dirs, temp_dir, Put(dirs[temp_dir], "config.json", BinFile(""))),
                    disk)
        ELSE
        LET d1 == Put(dirs, temp_dir,
                      Put(dirs[temp_dir], "config.json",
                          JsonFile(json_dump(model_data["config"]))))
        IN  \* zipfile.ZipFile(output_path, 'w', zipfile.ZIP_DEFLATED)
            IF io = "output_write_fails"
            THEN Result("OSError", model_data, d1, disk)
            ELSE \* every file under temp_dir, named relative to it; then rmtree
                 Result("", model_data, rmtree(d1, temp_dir),
                        Put(disk, output_path, ZipFile(d1[temp_dir])))

save_model(model_data, output_path, io) ==
    IF IsAivis(model_data)
    THEN save_aivis_model(model_data, output_path, io)
    ELSE IF io = "output_write_fails"
    THEN Result("OSError", model_data, dirs, disk)
    ELSE Result("", model_data, dirs,
                Put(disk, output_path, JsonFile(json_dump(model_data))))

-----------------------------------------------------------------------------
(* The files the user can pick, and what they hold *)

ConfigA == [name |-> "model A", speakers |-> <<[id |-> 1]>>]

ConfigC == [name |-> "model C",
            speakers |-> <<[id |-> 1, styles |-> <<"old">>], [id |-> 2]>>]

ConfigD == [name |-> "model D", styles |-> StylesOther]

FileA == Path("models", "a", ".aivis")   \* an archive with config.json
FileB == Path("models", "b", ".aivis")   \* an archive without config.json
FileC == Path("models", "c", ".json")    \* a plain configuration
FileD == Path("models", "d", ".json")    \* one whose "styles" is no mapping

(* the files the selection dialog offers *)
FileLibrary == {FileA, FileB, FileD}

(* the disk when the program starts, FileC holding the configuration x *)
DiskWith(x) ==
    [path \in {FileA, FileB, FileC, FileD} |->
        CASE path = FileA ->
                 ZipFile([n \in {"config.json", "model.bin"} |->
                             IF n = "config.json"
                             THEN JsonFile(json_dump(ConfigA))
                             ELSE BinFile("weights of A")])
          [] path = FileB ->
                 ZipFile([n \in {"voice.bin"} |-> BinFile("weights of B")])
          [] path = FileC -> JsonFile(json_dump(x))
          [] path = FileD -> JsonFile(json_dump(ConfigD))]

InitialDisk == DiskWith(ConfigC)

OutputDirs == {"out"}

(* what askopenfilenames returns when the user picks something *)
Picks == UNION {[1..n -> FileLibrary] : n \in 1..MaxPick}

-----------------------------------------------------------------------------
(* AivisStyleGUI: the widgets, the list objects and the worker threads *)

NoPath == Path("", "", "")

Threads == 1..MaxBatches

NewThread ==
    [pc            |-> "idle",   \* idle, start, iter, load, merge, save, except,
                                 \* done (process_complete posted), finished
     it            |-> 0,        \* the list object the for loop iterates
     i             |-> 0,        \* how many of its items the loop has taken
     input_file    |-> NoPath,
     output_file   |-> NoPath,
     model_data    |-> EmptyDict,
     success_count |-> 0,
     error_count   |-> 0,
     exc           |-> "",       \* the exception being handled
     at            |-> "",       \* the call that raised it
     log           |-> <<>>,     \* history: the cycles run, [file, raised, at, exc]
     snapshot      |-> <<>>,     \* history: the selection when the thread was started
     iterated      |-> <<>>]     \* history: the list as the for loop left it

InCycle(t) == threads[t].pc \in {"load", "merge", "save", "except"}

Running(t) == threads[t].pc \in {"start", "iter", "load", "merge", "save", "except"}

(* list objects still referenced, given the thread records th *)
IterRefs(th) == {th[t].it : t \in Threads} \ {0}

Collect(heap, refs) == [id \in (DOMAIN heap) \cap refs |-> heap[id]]

FreshId(used) == CHOOSE id \in 1..(Cardinality(used) + 1) :
                    /\ id \notin used
                    /\ \A j \in 1..(id - 1) : j \in used

(* root.after(0, self.process_complete, success_count, error_count), by   *)
(* thread tid                                                              *)
Callback(tid, success_count, error_count) ==
    [tid |-> tid, success_count |-> success_count, error_count |-> error_count]

(* select_files, the dialog returning the non-empty tuple files:           *)
(* self.input_files.extend(files)                                          *)
select_files(files) ==
    /\ Len(lists[input_files]) + Len(files) <= MaxFiles
    /\ lists' = [lists EXCEPT ![input_files] = @ \o files]
    /\ UNCHANGED <<input_files, output_dir, execute_btn, after_queue, fsvars,
                   threads, nthreads, harness>>

(* clear_files: self.input_files is bound to a new, empty list object *)
clear_files ==
    /\ LET id == FreshId(IterRefs(threads))
       IN  /\ input_files' = id
           /\ lists' = Collect(Put(lists, id, <<>>), IterRefs(threads) \cup {id})
    /\ UNCHANGED <<output_dir, execute_btn, after_queue, fsvars, threads,
                   nthreads, harness>>

(* select_output_dir, the dialog returning directory *)
select_output_dir(directory) ==
    /\ output_dir' = directory
    /\ UNCHANGED <<lists, input_files, execute_btn, after_queue, fsvars, threads,
                   nthreads, harness>>

(* Mutant of disable_execute_btn: the button stays enabled. *)
leave_execute_btn_enabled == "normal"

(* self.execute_btn.config(state='disabled') *)
disable_execute_btn == "disabled"

(* execute_process: the command of execute_btn, which Tk invokes only      *)
(* while the button is not disabled.  With no file or no output folder it  *)
(* shows a warning and returns.                                            *)
execute_process ==
    /\ execute_btn = "normal"
    /\ lists[input_files] # <<>>
    /\ output_dir # ""
    /\ nthreads < MaxBatches
    /\ execute_btn' = disable_execute_btn
    /\ nthreads' = nthreads + 1
    /\ threads' = [threads EXCEPT ![nthreads + 1] =
                      [NewThread EXCEPT !.pc = "start",
                                        !.snapshot = lists[input_files]]]
    /\ UNCHANGED <<lists, input_files, output_dir, after_queue, fsvars, harness>>

(* process_files up to the for statement: the counters, and the iterator   *)
(* over the list self.input_files is bound to at that moment.              *)
process_files_begin(t) ==
    /\ threads[t].pc = "start"
    /\ threads' = [threads EXCEPT ![t].pc = "iter",
                                  ![t].it = input_files,
                                  ![t].i = 0,
                                  ![t].success_count = 0,
                                  ![t].error_count = 0]
    /\ UNCHANGED <<uivars, fsvars, nthreads, harness>>

(* The head of the for loop: the next item of the list, the status update  *)
(* and the output file name; or, the list exhausted, line 326.             *)
for_next(t) ==
    /\ threads[t].pc = "iter"
    /\ LET th == threads[t]
           items == lists[th.it]
       IN  IF th.i < Len(items)
           THEN LET input_file == items[th.i + 1]
                IN  /\ threads' = [threads EXCEPT
                           ![t].pc = "load",
                           ![t].i = th.i + 1,
                           ![t].input_file = input_file,
                           ![t].output_file =
                               Path(output_dir, input_file.stem \o "_styled",
                                    input_file.ext)]
                    /\ UNCHANGED <<lists, after_queue>>
           ELSE LET done == [threads EXCEPT ![t].pc = "done", ![t].it = 0,
                                            ![t].iterated = items]
                IN  /\ after_queue' = Append(after_queue,
                           Callback(t, th.success_count, th.error_count))
                    /\ threads' = done
                    /\ lists' = Collect(lists, IterRefs(done) \cup {input_files})
    /\ UNCHANGED <<input_files, output_dir, execute_btn, fsvars, nthreads, harness>>

(* a call of the try block raised e *)
Raised(t, call, e) ==
    [threads EXCEPT ![t].pc = "except", ![t].exc = e, ![t].at = call,
                    ![t].log = Append(@, [file |-> threads[t].input_file,
                                          raised |-> TRUE, at |-> call,
                                          exc |-> e])]

(* model_data = self.adder.load_model(input_file) *)
load(t) ==
    /\ threads[t].pc = "load"
    /\ LET r == load_model(threads[t].input_file)
       IN  /\ dirs' = r.dirs
           /\ disk' = r.disk
           /\ threads' = IF r.exc = ""
                         THEN [threads EXCEPT ![t].pc = "merge",
                                              ![t].model_data = r.value]
                         ELSE Raised(t, "load_model", r.exc)
    /\ UNCHANGED <<uivars, nthreads, harness>>

(* model_data = self.adder.add_styles_to_model(model_data) *)
merge(t) ==
    /\ threads[t].pc = "merge"
    /\ LET r == add_styles_to_model(threads[t].model_data)
       IN  threads' = IF r.exc = ""
                      THEN [threads EXCEPT ![t].pc = "save",
                                           ![t].model_data = r.value]
                      ELSE Raised(t, "add_styles_to_model", r.exc)
    /\ UNCHANGED <<uivars, fsvars, nthreads, harness>>

(* self.adder.save_model(model_data, output_file); success_count += 1 *)
save(t) ==
    /\ threads[t].pc = "save"
    /\ \E io \in IoOutcomes :
         LET r == save_model(threads[t].model_data, threads[t].output_file, io)
         IN  /\ dirs' = r.dirs
             /\ disk' = r.disk
             /\ threads' = IF r.exc = ""
                           THEN [threads EXCEPT
                                    ![t].pc = "iter",
                                    ![t].success_count = @ + 1,
                                    ![t].log = Append(@,
                                        [file |-> threads[t].input_file,
                                         raised |-> FALSE, at |-> "",
                                         exc |-> ""])]
                           ELSE Raised(t, "save_model", r.exc)
    /\ UNCHANGED <<uivars, nthreads, harness>>

(* Mutant of resume_after_except: the exception ends the thread. *)
stop_after_except == "done"

(* where the thread goes on after the except block: the loop's head *)
resume_after_except == "iter"

(* except Exception as e: error_count += 1 *)
except_handler(t) ==
    /\ threads[t].pc = "except"
    /\ threads' = [threads EXCEPT ![t].pc = resume_after_except,
                                  ![t].error_count = @ + 1,
                                  ![t].exc = "",
                                  ![t].at = ""]
    /\ UNCHANGED <<uivars, fsvars, nthreads, harness>>

(* The event loop runs the oldest callback posted with root.after(0, ...): *)
(* process_complete(success_count, error_count) enables the button; the    *)
(* finished Thread object is dropped with it.                              *)
process_complete ==
    /\ after_queue # <<>>
    /\ LET cb == Head(after_queue)
       IN  threads' = [threads EXCEPT ![cb.tid] = [NewThread EXCEPT !.pc = "finished"]]
    /\ execute_btn' = "normal"
    /\ after_queue' = Tail(after_queue)
    /\ UNCHANGED <<lists, input_files, output_dir, fsvars, nthreads, harness>>

-----------------------------------------------------------------------------
(* The program: the window after AivisStyleGUI.__init__, the user's events *)
(* and the steps of the worker threads.                                    *)

NotReloaded == [done |-> FALSE, exc |-> "", value |-> EmptyDict, cycle_exc |-> ""]

MergeIdle ==
    /\ m_in = EmptyDict
    /\ m_once = EmptyDict
    /\ m_doc = EmptyDict
    /\ m_calls = 0
    /\ m_exc = ""

GuiInit ==
    /\ disk = InitialDisk
    /\ dirs = EmptyDict
    /\ lists = [id \in {1} |-> <<>>]
    /\ input_files = 1
    /\ output_dir = ""
    /\ execute_btn = "normal"
    /\ after_queue = <<>>
    /\ threads = [t \in Threads |-> NewThread]
    /\ nthreads = 0

Init == GuiInit /\ MergeIdle /\ reloaded = NotReloaded

Next ==
    \/ \E files \in Picks : select_files(files)
    \/ clear_files
    \/ \E directory \in OutputDirs : select_output_dir(directory)
    \/ execute_process
    \/ process_complete
    \/ \E t \in Threads : process_files_begin(t)
    \/ \E t \in Threads : for_next(t)
    \/ \E t \in Threads : load(t)
    \/ \E t \in Threads : merge(t)
    \/ \E t \in Threads : save(t)
    \/ \E t \in Threads : except_handler(t)

Spec == Init /\ [][Next]_vars

-----------------------------------------------------------------------------
(* Inputs of the pure-merge specification *)

OldParams ==
    [speed |-> 50, pitch |-> 5, intonation |-> 50, volume |-> 50,
     emotion_strength |-> 10]

OldEntries ==
    {[name |-> "old", parameters |-> OldParams],
     [name |-> "no-maru", parameters |-> style_params["normal"]]}

(* Style tables a configuration may already hold: over catalog identifiers *)
(* and an identifier outside the catalog.                                  *)
SomeStyleItems ==
    UNION {[S -> OldEntries] : S \in SUBSET {"normal", "whisper"}}

SomeSpeakers ==
    {[id |-> 1],
     [id |-> 2, styles |-> <<"old">>],
     [styles |-> <<>>]}

SpeakerLists == UNION {[1..n -> SomeSpeakers] : n \in 0..MaxSpeakers}

(* Configuration objects: "styles" absent, a non-mapping or a mapping;     *)
(* "speakers" absent or a sequence; another top-level key.                 *)
SomeConfigs ==
    LET withStyles == {EmptyDict}
                      \cup {Put(EmptyDict, "styles", StylesOther)}
                      \cup {Put(EmptyDict, "styles", StylesDict(f)) :
                               f \in SomeStyleItems}
        withSpeakers == withStyles
                      \cup {Put(c, "speakers", s) :
                               c \in withStyles, s \in SpeakerLists}
    IN  withSpeakers \cup {Put(c, "name", "model") : c \in withSpeakers}

(* What load_model can return: a plain configuration, and the packaged     *)
(* wrapper {"type": "aivis", "config": ..., "temp_dir": ...}.              *)
SomeDocs ==
    SomeConfigs
    \cup {[type |-> "aivis", config |-> c, temp_dir |-> StagingName] :
             c \in SomeConfigs}
    \cup {[type |-> "aivis"], [type |-> "vits", name |-> "model"]}

-----------------------------------------------------------------------------
(* The pure-merge specification: add_styles_to_model applied once, then    *)
(* again to its own result.                                                *)

MergeInit ==
    /\ GuiInit
    /\ reloaded = NotReloaded
    /\ m_in \in SomeDocs
    /\ m_doc = m_in
    /\ m_once = EmptyDict
    /\ m_calls = 0
    /\ m_exc = ""

MergeCall ==
    /\ m_calls < 2
    /\ m_exc = ""
    /\ LET r == add_styles_to_model(m_doc)
       IN  /\ m_exc' = r.exc
           /\ m_doc' = r.value
           /\ m_calls' = IF r.exc = "" THEN m_calls + 1 ELSE m_calls
           /\ m_once' = IF r.exc = "" /\ m_calls = 0 THEN r.value ELSE m_once
    /\ UNCHANGED <<m_in, reloaded, fsvars, uivars, threads, nthreads>>

MergeNext == MergeCall

MergeSpec == MergeInit /\ [][MergeNext]_vars

-----------------------------------------------------------------------------
(* The round-trip specification: one batch over the plain file FileC,      *)
(* which holds any of SomeDocs, and then load_model of the file the cycle  *)
(* was to write.                                                           *)

RoundTripInit ==
    /\ \E x \in SomeDocs : disk = DiskWith(x)
    /\ dirs = EmptyDict
    /\ lists = [id \in {1} |-> <<FileC>>]
    /\ input_files = 1
    /\ output_dir = "out"
    /\ execute_btn = "normal"
    /\ after_queue = <<>>
    /\ threads = [t \in Threads |-> NewThread]
    /\ nthreads = 0
    /\ MergeIdle
    /\ reloaded = NotReloaded

(* the output file of the cycle over FileC *)
OutputOfC == Path("out", "c_styled", ".json")

CycleOver(t) ==
    /\ threads[t].log # <<>>
    /\ threads[t].pc \in {"iter", "except", "done"}

(* load_model(OutputOfC) after a cycle that ended with cycle_exc *)
reload ==
    /\ ~reloaded.done
    /\ \E t \in Threads :
         /\ CycleOver(t)
         /\ LET r == load_model(OutputOfC)
            IN  reloaded' = [done |-> TRUE, exc |-> r.exc, value |-> r.value,
                             cycle_exc |-> threads[t].log[1].exc]
    /\ UNCHANGED <<fsvars, uivars, threads, nthreads, mvars>>

RoundTripNext ==
    \/ execute_process
    \/ process_complete
    \/ \E t \in Threads : process_files_begin(t)
    \/ \E t \in Threads : for_next(t)
    \/ \E t \in Threads : load(t)
    \/ \E t \in Threads : merge(t)
    \/ \E t \in Threads : save(t)
    \/ \E t \in Threads : except_handler(t)
    \/ reload

RoundTripSpec == RoundTripInit /\ [][RoundTripNext]_vars

-----------------------------------------------------------------------------
(* Properties *)

(* the configuration add_styles_to_model works on *)
ConfigOf(model_data) ==
    IF IsAivis(model_data) THEN model_data["config"] ELSE model_data

CatalogIds ==
    {"normal", "standard", "high_tension", "calm", "cheerful", "emotional"}

(* The catalog as tabulated: the parameters in hundredths, the display     *)
(* names as the program spells them.                                       *)
CatalogTable ==
    [id \in CatalogIds |->
        CASE id = "normal" ->
                 [name |-> "no-maru",
                  parameters |-> [speed |-> 100, pitch |-> 0, intonation |-> 100,
                                  volume |-> 100, emotion_strength |-> 50]]
          [] id = "standard" ->
                 [name |-> "tsuujou",
                  parameters |-> [speed |-> 100, pitch |-> 0, intonation |-> 100,
                                  volume |-> 100, emotion_strength |-> 50]]
          [] id = "high_tension" ->
                 [name |-> "tenshon takame",
                  parameters |-> [speed |-> 120, pitch |-> 20, intonation |-> 150,
                                  volume |-> 120, emotion_strength |-> 80]]
          [] id = "calm" ->
                 [name |-> "ochitsuki",
                  parameters |-> [speed |-> 90, pitch |-> -10, intonation |-> 80,
                                  volume |-> 90, emotion_strength |-> 30]]
          [] id = "cheerful" ->
                 [name |-> "joukigen",
                  parameters |-> [speed |-> 110, pitch |-> 10, intonation |-> 130,
                                  volume |-> 110, emotion_strength |-> 70]]
          [] id = "emotional" ->
                 [name |-> "ikari / kanashimi",
                  parameters |-> [speed |-> 95, pitch |-> -20, intonation |-> 140,
                                  volume |-> 100, emotion_strength |-> 90]]]

CatalogOrder ==
    <<"normal", "standard", "high_tension", "calm", "cheerful", "emotional">>

(* the identifiers the style table of config holds ({} without a table) *)
StyleIdsOf(config) ==
    IF "styles" \in DOMAIN config THEN DOMAIN config["styles"].items ELSE {}

NumRaised(log) == Cardinality({k \in 1..Len(log) : log[k].raised})

FilesOf(log) == [k \in 1..Len(log) |-> log[k].file]

(* a packaged document: what _load_aivis_model returned *)
IsPackaged(t) ==
    /\ threads[t].input_file.ext = ".aivis"
    /\ IsAivis(threads[t].model_data)

(* thread t has just come out of save_model, normally or by an exception *)
SaveFinished(t) ==
    \/ threads[t].pc = "except" /\ threads[t].at = "save_model"
    \/ /\ threads[t].pc = "iter"
       /\ threads[t].log # <<>>
       /\ threads[t].i = Len(threads[t].log)
       /\ ~threads[t].log[Len(threads[t].log)].raised

(* thread t has just come out of load_model, normally or by an exception *)
LoadFinished(t) ==
    \/ threads[t].pc = "merge"
    \/ threads[t].pc = "except" /\ threads[t].at = "load_model"

(* C1 (as claimed): after save_model of a packaged document finishes,      *)
(* normally or with the error of a failed write of config.json or of the   *)
(* output archive, the staging directory no longer exists.                 *)
C1_StagingGoneAfterSave ==
    \A t \in Threads :
        (SaveFinished(t) /\ IsPackaged(t)) => StagingName \notin DOMAIN dirs

(* C2 (as claimed): for every packaged input of a batch whose cycle        *)
(* completed, whatever happened to the files before it, the output archive *)
(* holds every file of the original archive other than config.json with    *)
(* the same content, holds config.json with the merged configuration, and  *)
(* holds no file that was not in the original archive.                     *)
C2_OutputArchiveIsOriginal ==
    \A t \in Threads :
        (/\ threads[t].pc = "iter"
         /\ threads[t].log # <<>>
         /\ threads[t].i = Len(threads[t].log)
         /\ ~threads[t].log[Len(threads[t].log)].raised
         /\ threads[t].input_file.ext = ".aivis")
        => LET orig == disk[threads[t].input_file].entries
               out  == disk[threads[t].output_file]
           IN  /\ out.kind = "zip"
               /\ \A n \in (DOMAIN orig) \ {"config.json"} :
                      n \in DOMAIN out.entries /\ out.entries[n] = orig[n]
               /\ "config.json" \in DOMAIN out.entries
               /\ "config.json" \in DOMAIN orig
               /\ json_load(out.entries["config.json"].text)
                      = add_styles_to_config(
                            json_load(orig["config.json"].text)).value
               /\ DOMAIN out.entries \subseteq DOMAIN orig

(* C3 (as claimed): load_model of an archive without config.json at its    *)
(* root fails with FileNotFoundError and leaves no staging directory, in   *)
(* every filesystem state earlier loads, merges and saves can leave.       *)
C3_MissingConfigFails ==
    \A t \in Threads :
        (/\ LoadFinished(t)
         /\ threads[t].input_file.ext = ".aivis"
         /\ "config.json" \notin DOMAIN disk[threads[t].input_file].entries)
        => /\ threads[t].pc = "except"
           /\ threads[t].exc = "FileNotFoundError"
           /\ StagingName \notin DOMAIN dirs

(* C4: a failing load, merge or save never stops the batch.  While the     *)
(* loop runs, the cycles run so far are those of the first items of the    *)
(* list, in order; once process_complete is posted, every item of the list *)
(* was attempted exactly once in list order, the posted success_count and  *)
(* error_count add up to the number of items, and error_count is the       *)
(* number of cycles that raised.                                           *)
C4_BatchAttemptsEveryFile ==
    \A t \in Threads :
        /\ threads[t].pc \in {"idle", "start", "iter", "load", "merge", "save",
                              "except", "done", "finished"}
        /\ threads[t].pc \in {"iter", "load", "merge", "save", "except"}
           => LET th == threads[t]
                  n  == IF th.pc \in {"load", "merge", "save"} THEN th.i - 1
                        ELSE th.i
              IN  /\ Len(th.log) = n
                  /\ n <= Len(lists[th.it])
                  /\ \A k \in 1..n : th.log[k].file = lists[th.it][k]
                  /\ th.error_count
                       = NumRaised(th.log) - (IF th.pc = "except" THEN 1 ELSE 0)
                  /\ th.success_count = Len(th.log) - NumRaised(th.log)
        /\ threads[t].pc = "done"
           => /\ FilesOf(threads[t].log) = threads[t].iterated
              /\ \E k \in 1..Len(after_queue) :
                    /\ after_queue[k].tid = t
                    /\ after_queue[k].success_count + after_queue[k].error_count
                           = Len(threads[t].iterated)
                    /\ after_queue[k].error_count = NumRaised(threads[t].log)

(* C4, witness: a batch of two files is over, the first cycle raised and   *)
(* the second file was processed all the same.                             *)
C4_Witness ==
    \E t \in Threads :
        /\ threads[t].pc = "done"
        /\ Len(threads[t].log) = 2
        /\ threads[t].log[1].raised
        /\ ~threads[t].log[2].raised

(* C5 (as claimed): after add_styles_to_model the styles mapping holds     *)
(* exactly the six catalog identifiers, each with the catalog's name and   *)
(* parameters.                                                             *)
C5_ExactlyTheCatalog ==
    m_calls >= 1 => ConfigOf(m_doc)["styles"] = StylesDict(CatalogTable)

(* C5 (amended): for the configuration add_styles_to_model works on: if    *)
(* its styles value is present and no mapping, the call raises TypeError   *)
(* and changes nothing; otherwise, after the call, the styles mapping      *)
(* holds each of the six catalog identifiers with the catalog's name and   *)
(* parameters, and besides them exactly the identifiers outside the        *)
(* catalog it held before, unchanged.  (A document tagged "aivis" that has *)
(* no configuration raises KeyError.)                                      *)
C5_CatalogInjected ==
    /\ (m_calls = 0 /\ m_exc # "") =>
           /\ m_doc = m_in
           /\ \/ /\ m_exc = "KeyError"
                 /\ IsAivis(m_in)
                 /\ "config" \notin DOMAIN m_in
              \/ /\ m_exc = "TypeError"
                 /\ "styles" \in DOMAIN ConfigOf(m_in)
                 /\ ConfigOf(m_in)["styles"].tag # "dict"
    /\ m_calls >= 1 =>
        LET before == ConfigOf(m_in)
            after  == ConfigOf(m_doc)
            prior  == StyleIdsOf(before)
        IN  /\ "styles" \in DOMAIN before => before["styles"].tag = "dict"
            /\ "styles" \in DOMAIN after
            /\ after["styles"].tag = "dict"
            /\ DOMAIN after["styles"].items = CatalogIds \cup prior
            /\ \A id \in CatalogIds :
                   after["styles"].items[id] = CatalogTable[id]
            /\ \A id \in prior \ CatalogIds :
                   after["styles"].items[id] = before["styles"].items[id]

(* C5, witness: the merge returned for a table that held an identifier     *)
(* outside the catalog and another entry under "normal".                   *)
C5_Witness ==
    /\ m_calls = 1
    /\ {"whisper", "normal"} \subseteq StyleIdsOf(ConfigOf(m_in))
    /\ ConfigOf(m_in)["styles"].items["normal"].name = "old"

(* C6 (as claimed): for a plain JSON file holding any JSON object X, the   *)
(* cycle load, merge, save followed by load_model of the written file      *)
(* yields a plain configuration whose styles mapping holds the catalog     *)
(* and in which every top-level key of X other than styles and speakers    *)
(* has its value of X.  (A cycle that the environment failed, with an      *)
(* OSError, is not counted.)                                               *)
C6_PlainRoundTrip ==
    (reloaded.done /\ reloaded.cycle_exc # "OSError") =>
        LET x == json_load(disk[FileC].text)
            y == reloaded.value
        IN  /\ reloaded.exc = ""
            /\ "styles" \in DOMAIN y
            /\ y["styles"].tag = "dict"
            /\ \A id \in CatalogIds :
                   /\ id \in DOMAIN y["styles"].items
                   /\ y["styles"].items[id] = CatalogTable[id]
            /\ \A k \in (DOMAIN x) \ {"styles", "speakers"} :
                   k \in DOMAIN y /\ y[k] = x[k]

C8_MergeIdempotent ==
    m_calls = 2 =>
        LET once  == ConfigOf(m_once)
            twice == ConfigOf(m_doc)
        IN  /\ twice["styles"] = once["styles"]
            /\ ("speakers" \in DOMAIN twice) = ("speakers" \in DOMAIN once)
            /\ "speakers" \in DOMAIN once =>
                  /\ Len(twice["speakers"]) = Len(once["speakers"])
                  /\ \A i \in 1..Len(once["speakers"]) :
                        twice["speakers"][i]["styles"]
                            = once["speakers"][i]["styles"]

(* C8, witness: the second call returned, for a configuration that had a   *)
(* style table of its own and speakers with and without a styles field.    *)
C8_Witness ==
    /\ m_calls = 2
    /\ "whisper" \in StyleIdsOf(ConfigOf(m_in))
    /\ "speakers" \in DOMAIN ConfigOf(m_in)
    /\ \E i, j \in 1..Len(ConfigOf(m_in)["speakers"]) :
          /\ "styles" \in DOMAIN ConfigOf(m_in)["speakers"][i]
          /\ "styles" \notin DOMAIN ConfigOf(m_in)["speakers"][j]

(* C9: at most one worker thread runs at any time, and while one runs the  *)
(* execute button is disabled; so no two load-merge-save cycles overlap    *)
(* and at most one loaded document refers to the staging directory.        *)
C9_OneWorkerAtATime ==
    /\ Cardinality({t \in Threads : Running(t)}) <= 1
    /\ (\E t \in Threads : Running(t)) => execute_btn = "disabled"
    /\ Cardinality({t \in Threads : InCycle(t)}) <= 1
    /\ Cardinality({t \in Threads :
                       /\ threads[t].pc \in {"merge", "save"}
                       /\ IsAivis(threads[t].model_data)}) <= 1

(* C9, witness: a second batch, started after process_complete enabled     *)
(* the button again, holds a packaged document.                            *)
C9_Witness ==
    /\ nthreads = 2
    /\ threads[1].pc = "finished"
    /\ threads[2].pc = "save"
    /\ IsPackaged(2)
    /\ StagingName \in DOMAIN dirs

(* C10 (as claimed): the files a batch processes are exactly the files     *)
(* selected when execute_process was invoked, whatever select_files and    *)
(* clear_files do while the worker runs.                                   *)
C10_BatchIsSelectionAtExecute ==
    \A t \in Threads :
        threads[t].pc = "done" => FilesOf(threads[t].log) = threads[t].snapshot

====
